---- MODULE Spec2Model ----
(***************************************************************************)
(* CowrieSSHFactory (cowrie/ssh/factory.py): the factory's fields, its     *)
(* four methods startFactory, stopFactory, logDispatch and buildProtocol,  *)
(* and the environment they read (configuration, key files, plugin         *)
(* modules, moduli files, the twisted log observers).                      *)
(***************************************************************************)
EXTENDS Integers, Sequences, FiniteSets, TLC

VARIABLES
    cfg,                    \* self.cfg: [sections, version]
    supportedKeyExchanges,  \* the transport class's default key-exchange list
    starttime,              \* self.starttime
    sessions,               \* self.sessions: [owner, ids]
    privateKeys,            \* self.privateKeys
    publicKeys,             \* self.publicKeys
    dbloggers,              \* self.dbloggers
    output_plugins,         \* self.output_plugins
    primes,                 \* self.primes
    observers,              \* twisted.python.log observers added by the factory
    lifecycle,              \* Uninitialized / Started / Stopped
    starts,                 \* number of startFactory calls made so far
    lastCall                \* the last method call: its inputs, the calls it
                            \* made, its outcome and the value it returned

vars == << cfg, supportedKeyExchanges, starttime, sessions, privateKeys,
           publicKeys, dbloggers, output_plugins, primes, observers,
           lifecycle, starts, lastCall >>

\* ---------------------------------------------------------------- bounds
MaxSections == 3
MaxStarts == 2

\* ------------------------------------------------------------- constants
\* An attribute that may be None holds << >> for None and << v >> for v.
None == << >>
Some(v) == << v >>

\* Section names, written as the list name.split('_') yields:
\* "output_text_v2" is <<"output", "text", "v2">>.
AllSections ==
    << <<"honeypot">>, <<"database", "mysql">>, <<"output", "jsonlog">>,
       <<"database", "textlog">>, <<"output", "text", "v2">> >>

VersionStrings == { None, Some("SSH-2.0-OpenSSH_5.1p1 Debian-5") }

\* Readings of time.time() (the wall clock may also be set back).
Times == { 1400000000, 1400000060 }

\* Identifiers of interactive sessions.
SessionIds == { "session-1" }

Events == { "cowrie.login.success" }
Addrs == { "192.0.2.1", "192.0.2.2" }

\* Default key-exchange lists of the transport class (library versions differ
\* in which group-exchange entries they offer).
DefaultKexLists ==
    { << "diffie-hellman-group-exchange-sha256",
         "diffie-hellman-group-exchange-sha1",
         "diffie-hellman-group14-sha1",
         "diffie-hellman-group1-sha1" >>,
      << "diffie-hellman-group-exchange-sha1",
         "diffie-hellman-group1-sha1" >> }

\* Library defaults of a fresh transport, before buildProtocol assigns.
LibraryCiphers ==
    << "aes256-ctr", "aes256-cbc", "aes192-ctr", "aes192-cbc", "aes128-ctr",
       "aes128-cbc", "cast128-ctr", "cast128-cbc", "blowfish-ctr",
       "blowfish-cbc", "3des-ctr", "3des-cbc" >>
LibraryPublicKeys == << "ssh-dss", "ssh-rsa" >>
LibraryMACs == << "hmac-sha1", "hmac-md5" >>
LibraryCompressions == << "none", "zlib" >>
LibraryVersionString == "SSH-2.0-Twisted"

\* ------------------------------------------------------ sequence helpers
\* The record kept of a method call.
Call(op, raised, args, trace, value) ==
    [ op |-> op, result |-> IF raised THEN "raised" ELSE "returned",
      args |-> args, trace |-> trace, value |-> value ]

RECURSIVE SubSeqs(_)
\* every subsequence of s, order kept
SubSeqs(s) ==
    IF s = << >> THEN { << >> }
    ELSE LET rest == SubSeqs(Tail(s))
         IN  rest \cup { << Head(s) >> \o r : r \in rest }

Range(s) == { s[i] : i \in DOMAIN s }

IndexOf(s, x) == CHOOSE i \in DOMAIN s : s[i] = x /\ \A j \in 1..(i-1) : s[j] # x

\* list.remove(x): drops the first occurrence of x
ListRemove(s, x) ==
    LET i == IndexOf(s, x)
    IN  SubSeq(s, 1, i - 1) \o SubSeq(s, i + 1, Len(s))

\* ------------------------------------------------------- startFactory
\* Only the RSA key pair loaded.
KeyAlgorithmsRsaOnly == { "ssh-rsa" }

\* The algorithm names of lines 65-70.
KeyAlgorithms == { "ssh-rsa", "ssh-dss" }

\* The six calls of lines 63-70 that obtain or parse key material, in order.
KeyCalls ==
    << "getRSAKeys", "getDSAKeys", "fromString(rsaPub)", "fromString(dsaPub)",
       "fromString(rsaPriv)", "fromString(dsaPriv)" >>
KeyOutcomes == { "ok" } \cup Range(KeyCalls)

KeyMap(kind) == [ alg \in KeyAlgorithms |-> << kind, alg >> ]

\* Key errors swallowed instead of propagating.
LoadKeysIgnoringErrors(pub, priv, keyOutcome) ==
    IF keyOutcome = "ok"
    THEN [ publicKeys |-> Some(KeyMap("public")),
           privateKeys |-> Some(KeyMap("private")), raised |-> FALSE ]
    ELSE [ publicKeys |-> pub, privateKeys |-> priv, raised |-> FALSE ]

\* The private keys parsed and assigned before the public ones.
LoadKeysPrivateFirst(pub, priv, keyOutcome) ==
    IF keyOutcome = "ok"
    THEN [ publicKeys |-> Some(KeyMap("public")),
           privateKeys |-> Some(KeyMap("private")), raised |-> FALSE ]
    ELSE IF keyOutcome \in { "fromString(rsaPub)", "fromString(dsaPub)" }
    THEN [ publicKeys |-> pub,
           privateKeys |-> Some(KeyMap("private")), raised |-> TRUE ]
    ELSE [ publicKeys |-> pub, privateKeys |-> priv, raised |-> TRUE ]

\* Lines 63-70. keyOutcome names the call that raises, or is "ok".
\* self.publicKeys is assigned once both public keys parsed (line 65),
\* self.privateKeys once both private keys parsed (line 68).
LoadKeys(pub, priv, keyOutcome) ==
    IF keyOutcome = "ok"
    THEN [ publicKeys |-> Some(KeyMap("public")),
           privateKeys |-> Some(KeyMap("private")), raised |-> FALSE ]
    ELSE IF keyOutcome \in { "fromString(rsaPriv)", "fromString(dsaPriv)" }
    THEN [ publicKeys |-> Some(KeyMap("public")),
           privateKeys |-> priv, raised |-> TRUE ]
    ELSE [ publicKeys |-> pub, privateKeys |-> priv, raised |-> TRUE ]

\* x.startswith(prefix + '_'), on the split form of x
StartsWith(x, prefix) == Len(x) >= 2 /\ x[1] = prefix

\* x.split('_')[1]
Engine(x) == x[2]

Sink(group, x, i, gen) ==
    [ group |-> group, engine |-> Engine(x), sec |-> i, gen |-> gen ]
NoSink == [ group |-> "none", engine |-> "", sec |-> 0, gen |-> 0 ]

LoadOutcomes == { "ok", "ImportError", "InitError" }

\* A failed engine ends the loop instead of being skipped.
RECURSIVE LoadEnginesAbort(_, _, _, _, _)
LoadEnginesAbort(prefix, sections, load, gen, i) ==
    IF i > Len(sections) THEN << >>
    ELSE IF ~StartsWith(sections[i], prefix)
    THEN LoadEnginesAbort(prefix, sections, load, gen, i + 1)
    ELSE IF load[i] = "ok"
    THEN << Sink(prefix, sections[i], i, gen) >>
             \o LoadEnginesAbort(prefix, sections, load, gen, i + 1)
    ELSE << >>

\* The loops of lines 74-86 and 90-102 from section i on: the sinks
\* instantiated, in section order. load[i] is what importing and
\* instantiating the engine of section i does.
RECURSIVE LoadEngines(_, _, _, _, _)
LoadEngines(prefix, sections, load, gen, i) ==
    IF i > Len(sections) THEN << >>
    ELSE IF ~StartsWith(sections[i], prefix)
    THEN LoadEngines(prefix, sections, load, gen, i + 1)
    ELSE IF load[i] = "ok"
    THEN << Sink(prefix, sections[i], i, gen) >>
             \o LoadEngines(prefix, sections, load, gen, i + 1)
    ELSE LoadEngines(prefix, sections, load, gen, i + 1)

\* self.sessions.clear(): empties whichever dict the attribute resolves to.
SessionsCleared(s) == [ s EXCEPT !.ids = {} ]

\* Line 57: self.sessions = {} binds a fresh dict on the instance.
SessionsReset(s) == [ owner |-> "instance", ids |-> {} ]

\* Whether a section can load an engine at all; the outcome of the others
\* is never looked at.
IsEngineSection(x) == StartsWith(x, "database") \/ StartsWith(x, "output")

LoadChoices(sections) ==
    { load \in [ DOMAIN sections -> LoadOutcomes ] :
        \A i \in DOMAIN sections :
            ~IsEngineSection(sections[i]) => load[i] = "ok" }

StartFactory ==
    /\ starts < MaxStarts
    /\ \E keyOutcome \in KeyOutcomes, load \in LoadChoices(cfg.sections),
          time \in Times :
        LET k   == LoadKeys(publicKeys, privateKeys, keyOutcome)
            gen == starts + 1
            db  == LoadEngines("database", cfg.sections, load, gen, 1)
            out == LoadEngines("output", cfg.sections, load, gen, 1)
            args == [ keys |-> keyOutcome, load |-> load, time |-> time,
                      hadSessions |-> Cardinality(sessions.ids) ]
        IN  /\ keyOutcome # "ok" => \A i \in DOMAIN load : load[i] = "ok"
            /\ sessions' = SessionsReset(sessions)
            /\ starttime' = Some(time)
            /\ publicKeys' = k.publicKeys
            /\ privateKeys' = k.privateKeys
            /\ IF k.raised
               THEN /\ UNCHANGED << dbloggers, output_plugins, observers,
                                    lifecycle >>
                    /\ lastCall' = Call("startFactory", TRUE, args, << >>, None)
               ELSE /\ dbloggers' = Some(db)
                    /\ output_plugins' = Some(out)
                    /\ observers' = observers \o db \o out
                    /\ lifecycle' = "Started"
                    /\ lastCall' = Call("startFactory", FALSE, args, << >>, None)
    /\ starts' = starts + 1
    /\ UNCHANGED << cfg, supportedKeyExchanges, primes >>

\* --------------------------------------------------------- logDispatch
\* A loop "for s in sinks: s.method()" where the sinks in raises raise:
\* the calls made, in order, up to and including the first that raises.
RECURSIVE CallEach(_, _, _)
CallEach(method, sinks, raises) ==
    IF sinks = << >> THEN [ trace |-> << >>, raised |-> FALSE ]
    ELSE LET call == [ call |-> method, target |-> Head(sinks) ]
         IN  IF Head(sinks) \in raises
             THEN [ trace |-> << call >>, raised |-> TRUE ]
             ELSE LET rest == CallEach(method, Tail(sinks), raises)
                  IN  [ trace |-> << call >> \o rest.trace,
                        raised |-> rest.raised ]

\* Iterating an attribute that is still None raises TypeError.
ForEach(method, attr, raises) ==
    IF attr = None THEN [ trace |-> << >>, raised |-> TRUE ]
    ELSE CallEach(method, attr[1], raises)

\* Two loops run one after the other; the second only if the first
\* finished.
InOrder(first, second) ==
    IF first.raised THEN first
    ELSE [ trace |-> first.trace \o second.trace, raised |-> second.raised ]

\* The output loop before the database loop.
logDispatchOutputsFirst(dbl, outp, raises) ==
    InOrder(ForEach("logDispatch", outp, raises),
            ForEach("logDispatch", dbl, raises))

\* Lines 47-50.
logDispatch(dbl, outp, raises) ==
    InOrder(ForEach("logDispatch", dbl, raises),
            ForEach("logDispatch", outp, raises))

OptItems(attr) == IF attr = None THEN {} ELSE Range(attr[1])

RegisteredSinks == OptItems(dbloggers) \cup OptItems(output_plugins)

LogDispatch ==
    \E event \in Events, raises \in SUBSET RegisteredSinks :
        LET r == logDispatch(dbloggers, output_plugins, raises)
        IN  /\ lastCall' = Call("logDispatch", r.raised, [ event |-> event ],
                                 r.trace, None)
            /\ UNCHANGED << cfg, supportedKeyExchanges, starttime, sessions,
                            privateKeys, publicKeys, dbloggers, output_plugins,
                            primes, observers, lifecycle, starts >>

\* --------------------------------------------------------- stopFactory
BaseStopFactory ==
    [ trace |-> << [ call |-> "SSHFactory.stopFactory", target |-> NoSink ] >>,
      raised |-> FALSE ]

\* The sinks stopped before the base class's stopFactory runs.
stopFactorySinksFirst(outp, raises) ==
    InOrder(ForEach("stop", outp, raises), BaseStopFactory)

\* Teardown that stops the database sinks as well.
stopFactoryAllSinks(outp, raises) ==
    InOrder(BaseStopFactory,
            InOrder(ForEach("stop", dbloggers, raises),
                    ForEach("stop", outp, raises)))

\* Lines 110-112.
stopFactory(outp, raises) ==
    InOrder(BaseStopFactory, ForEach("stop", outp, raises))

\* The stopped sinks also dropped from the list.
StopFactoryDroppingSinks ==
    \E raises \in SUBSET OptItems(output_plugins) :
        LET r == stopFactory(output_plugins, raises)
        IN  /\ lifecycle' = "Stopped"
            /\ lastCall' = Call("stopFactory", r.raised, << >>, r.trace, None)
            /\ output_plugins' = IF r.raised THEN output_plugins
                                 ELSE Some(<< >>)
            /\ UNCHANGED << cfg, supportedKeyExchanges, starttime, sessions,
                            privateKeys, publicKeys, dbloggers,
                            primes, observers, starts >>

StopFactory ==
    \E raises \in SUBSET OptItems(output_plugins) :
        LET r == stopFactory(output_plugins, raises)
        IN  /\ lifecycle' = "Stopped"
            /\ lastCall' = Call("stopFactory", r.raised, << >>, r.trace, None)
            /\ UNCHANGED << cfg, supportedKeyExchanges, starttime, sessions,
                            privateKeys, publicKeys, dbloggers, output_plugins,
                            primes, observers, starts >>

\* ------------------------------------------------------- buildProtocol
\* Line 126.
modulis == << "/etc/ssh/moduli", "/private/etc/moduli" >>

\* What primes.parseModuliFile does on one path: raise IOError (the file
\* cannot be read), raise ValueError (a line does not parse), or return the
\* table, which is empty for a file without entries.
ModuliOutcomes == { "IOError", "ValueError", "empty", "table" }

ParsedTable(i, outcome) ==
    IF outcome = "empty" THEN {} ELSE { << "moduli", modulis[i] >> }

\* The loop without its break: a later path that parses replaces the table
\* of an earlier one.
RECURSIVE ProbeModuliNoBreak(_, _, _)
ProbeModuliNoBreak(pr, outcome, i) ==
    IF i > Len(modulis)
    THEN [ primes |-> pr, probed |-> << >>, raised |-> FALSE ]
    ELSE IF outcome[i] = "ValueError"
    THEN [ primes |-> pr, probed |-> << modulis[i] >>, raised |-> TRUE ]
    ELSE LET now == IF outcome[i] = "IOError" THEN pr
                    ELSE Some(ParsedTable(i, outcome[i]))
             rest == ProbeModuliNoBreak(now, outcome, i + 1)
         IN  [ rest EXCEPT !.probed = << modulis[i] >> \o @ ]

\* The table held only for the call: with no path parsed the factory is
\* left without one.
RECURSIVE ProbeModuliUncached(_, _, _)
ProbeModuliUncached(pr, outcome, i) ==
    IF i > Len(modulis)
    THEN [ primes |-> None, probed |-> << >>, raised |-> FALSE ]
    ELSE IF outcome[i] = "IOError"
    THEN LET rest == ProbeModuliUncached(pr, outcome, i + 1)
         IN  [ rest EXCEPT !.probed = << modulis[i] >> \o @ ]
    ELSE IF outcome[i] = "ValueError"
    THEN [ primes |-> None, probed |-> << modulis[i] >>, raised |-> TRUE ]
    ELSE [ primes |-> Some(ParsedTable(i, outcome[i])),
           probed |-> << modulis[i] >>, raised |-> FALSE ]

\* Lines 137-142 from path i on: the value of self.primes afterwards, the
\* paths parseModuliFile was called on, and whether an exception left the
\* loop.
RECURSIVE ProbeModuli(_, _, _)
ProbeModuli(pr, outcome, i) ==
    IF i > Len(modulis)
    THEN [ primes |-> pr, probed |-> << >>, raised |-> FALSE ]
    ELSE IF outcome[i] = "IOError"
    THEN LET rest == ProbeModuli(pr, outcome, i + 1)
         IN  [ rest EXCEPT !.probed = << modulis[i] >> \o @ ]
    ELSE IF outcome[i] = "ValueError"
    THEN [ primes |-> pr, probed |-> << modulis[i] >>, raised |-> TRUE ]
    ELSE [ primes |-> Some(ParsedTable(i, outcome[i])),
           probed |-> << modulis[i] >>, raised |-> FALSE ]

\* "not self.primes": None and the empty table are both false.
NoPrimes(pr) == pr = None \/ pr[1] = {}

RemoveIfPresent(ske, name) ==
    IF name \in Range(ske) THEN ListRemove(ske, name) ELSE ske

\* Only the sha1 entry is removed.
PruneKexSha1Only(ske) ==
    RemoveIfPresent(ske, "diffie-hellman-group-exchange-sha1")

\* Lines 145-152, on the copy ske of the default list.
PruneKex(ske) ==
    RemoveIfPresent(
        RemoveIfPresent(ske, "diffie-hellman-group-exchange-sha1"),
        "diffie-hellman-group-exchange-sha256")

\* The removals made on the shared default list itself.
PruneInPlace(defaultKex) ==
    [ ske |-> PruneKex(defaultKex), shared |-> PruneKex(defaultKex) ]

\* Lines 145 and 152: ske is a copy ([:]) of the list the transport class
\* shares, and the pruned copy becomes the transport's own list.
PruneCopy(defaultKex) ==
    [ ske |-> PruneKex(defaultKex), shared |-> defaultKex ]

\* A failed lookup leaving the transport's own banner in place.
VersionStringNoFallback(c) ==
    IF << "honeypot" >> \in Range(c.sections) /\ c.version # None
    THEN c.version[1]
    ELSE LibraryVersionString

\* Lines 130-133: cfg.get raises when the section or the option is missing.
VersionString(c) ==
    IF << "honeypot" >> \in Range(c.sections) /\ c.version # None
    THEN c.version[1]
    ELSE "SSH-2.0-OpenSSH_6.0p1 Debian-4+deb7u2"

\* Line 135: list(self.privateKeys.keys()), in the dict's order.
KeyNames(keyMap) ==
    CHOOSE names \in [ 1..Cardinality(DOMAIN keyMap) -> DOMAIN keyMap ] :
        Range(names) = DOMAIN keyMap

\* Lines 155-160.
supportedCiphers ==
    << "aes128-ctr", "aes192-ctr", "aes256-ctr", "aes128-cbc", "3des-cbc",
       "blowfish-cbc", "cast128-cbc", "aes192-cbc", "aes256-cbc" >>
supportedPublicKeys == << "ssh-rsa", "ssh-dss" >>
supportedMACs == << "hmac-md5", "hmac-sha1" >>
supportedCompressions == << "zlib@openssh.com", "zlib", "none" >>

\* Line 128: a fresh transport with the class defaults.
NewTransport(defaultKex) ==
    [ ourVersionString |-> LibraryVersionString,
      supportedPublicKeys |-> LibraryPublicKeys,
      supportedKeyExchanges |-> defaultKex,
      supportedCiphers |-> LibraryCiphers,
      supportedMACs |-> LibraryMACs,
      supportedCompressions |-> LibraryCompressions,
      factory |-> None ]

\* The fixed lists assigned only in the branch that prunes.
ReorderOnlyWhenPruned(t, pr) ==
    IF NoPrimes(pr)
    THEN [ t EXCEPT !.supportedCiphers = supportedCiphers,
                    !.supportedPublicKeys = supportedPublicKeys,
                    !.supportedMACs = supportedMACs,
                    !.supportedCompressions = supportedCompressions ]
    ELSE t

\* Lines 154-160, whatever self.primes is.
Reorder(t, pr) ==
    [ t EXCEPT !.supportedCiphers = supportedCiphers,
               !.supportedPublicKeys = supportedPublicKeys,
               !.supportedMACs = supportedMACs,
               !.supportedCompressions = supportedCompressions ]

\* Lines 115-163: the transport returned (None when an exception leaves the
\* method), self.primes and the class's default key-exchange list
\* afterwards, and the paths probed. addr is never read.
buildProtocol(addr, c, defaultKex, priv, pr, outcome) ==
    LET t == [ NewTransport(defaultKex) EXCEPT
                   !.ourVersionString = VersionString(c) ]
    IN  IF priv = None      \* line 135: None has no keys()
        THEN [ t |-> None, primes |-> pr, defaultKex |-> defaultKex,
               probed |-> << >>, raised |-> TRUE ]
        ELSE LET t0 == [ t EXCEPT !.supportedPublicKeys = KeyNames(priv[1]) ]
                 probe == ProbeModuli(pr, outcome, 1)
                 pruned == PruneCopy(defaultKex)
                 t1 == IF NoPrimes(probe.primes)
                       THEN [ t0 EXCEPT !.supportedKeyExchanges = pruned.ske ]
                       ELSE t0
                 t2 == [ Reorder(t1, probe.primes) EXCEPT
                             !.factory = Some("self") ]
             IN  IF probe.raised
                 THEN [ t |-> None, primes |-> probe.primes,
                        defaultKex |-> defaultKex,
                        probed |-> probe.probed, raised |-> TRUE ]
                 ELSE [ t |-> Some(t2), primes |-> probe.primes,
                        defaultKex |-> IF NoPrimes(probe.primes)
                                       THEN pruned.shared ELSE defaultKex,
                        probed |-> probe.probed, raised |-> FALSE ]

BuildProtocol ==
    \E addr \in Addrs, outcome \in [ DOMAIN modulis -> ModuliOutcomes ] :
        LET r == buildProtocol(addr, cfg, supportedKeyExchanges, privateKeys,
                               primes, outcome)
        IN  /\ primes' = r.primes
            /\ supportedKeyExchanges' = r.defaultKex
            /\ lastCall' = Call("buildProtocol", r.raised,
                                 [ moduli |-> outcome ],
                                 r.probed, r.t)
            /\ UNCHANGED << cfg, starttime, sessions,
                            privateKeys, publicKeys, dbloggers, output_plugins,
                            observers, lifecycle, starts >>

\* ------------------------------------------------------- environment
\* A connection handler registers its session in factory.sessions (a
\* handler exists only once privateKeys is set, line 135) ...
SessionOpen ==
    /\ privateKeys # None
    /\ \E id \in SessionIds :
        /\ id \notin sessions.ids
        /\ sessions' = [ sessions EXCEPT !.ids = @ \cup { id } ]
    /\ UNCHANGED << cfg, supportedKeyExchanges, starttime, privateKeys,
                    publicKeys, dbloggers, output_plugins, primes, observers,
                    lifecycle, starts, lastCall >>

\* ... and removes it when the session closes.
SessionClose ==
    /\ \E id \in sessions.ids :
        sessions' = [ sessions EXCEPT !.ids = @ \ { id } ]
    /\ UNCHANGED << cfg, supportedKeyExchanges, starttime, privateKeys,
                    publicKeys, dbloggers, output_plugins, primes, observers,
                    lifecycle, starts, lastCall >>

\* ------------------------------------------------------ specification
\* An option exists only inside its section.
ConfigsOver(names, maxLen) ==
    { c \in [ sections : { q \in SubSeqs(names) : Len(q) <= maxLen },
              version : VersionStrings ] :
        c.version # None => << "honeypot" >> \in Range(c.sections) }

\* The class attributes of lines 31-37 and __init__ (lines 39-40).
InitWith(configs, kexLists) ==
    /\ cfg \in configs
    /\ supportedKeyExchanges \in kexLists
    /\ starttime = None
    /\ sessions = [ owner |-> "class", ids |-> {} ]
    /\ privateKeys = None
    /\ publicKeys = None
    /\ dbloggers = None
    /\ output_plugins = None
    /\ primes = None
    /\ observers = << >>
    /\ lifecycle = "Uninitialized"
    /\ starts = 0
    /\ lastCall = Call("__init__", FALSE, << >>, << >>, None)

\* Every method and every configuration with at most one engine section.
Init == InitWith(ConfigsOver(<< AllSections[1], AllSections[3] >>, MaxSections),
                 DefaultKexLists)

Next ==
    \/ StartFactory
    \/ StopFactory
    \/ LogDispatch
    \/ BuildProtocol
    \/ SessionOpen
    \/ SessionClose

Spec == Init /\ [][Next]_vars

\* The methods that read or write the sink lists, over every configuration
\* of up to MaxSections sections. buildProtocol and the session registry
\* leave dbloggers, output_plugins, the observers and the lifecycle alone.
InitSinks ==
    InitWith({ c \in ConfigsOver(AllSections, MaxSections) : c.version = None },
             { supportedKeyExchanges_ \in DefaultKexLists :
                   Len(supportedKeyExchanges_) = 2 })

NextSinks ==
    \/ StartFactory
    \/ StopFactory
    \/ LogDispatch

SpecSinks == InitSinks /\ [][NextSinks]_vars

\* ------------------------------------------------------------ claims
\* How many calls of method on sink s the last call made.
Calls(method, s) ==
    Cardinality({ i \in DOMAIN lastCall.trace :
                    /\ lastCall.trace[i].call = method
                    /\ lastCall.trace[i].target = s })

Dispatched == lastCall.op = "logDispatch" /\ dbloggers # None
                  /\ output_plugins # None

\* C1: whichever sinks raise in logDispatch, it returns to its caller and
\* every registered sink has received the event.
C1_DispatchIsolatesSinks ==
    Dispatched =>
        /\ lastCall.result = "returned"
        /\ \A s \in RegisteredSinks : Calls("logDispatch", s) = 1

Stopped == lastCall.op = "stopFactory" /\ output_plugins # None

\* C2: whichever output sinks raise in stop(), stopFactory has called
\* stop() exactly once on every registered output sink.
C2_StopReachesEverySink ==
    Stopped => \A s \in OptItems(output_plugins) : Calls("stop", s) = 1

\* The sections of the configuration that name an engine of the group, and
\* those of them whose engine failed to load in the last startFactory.
SectionsOf(group) ==
    { i \in DOMAIN cfg.sections : StartsWith(cfg.sections[i], group) }
FailedSections ==
    { i \in SectionsOf("database") \cup SectionsOf("output") :
        lastCall.args.load[i] # "ok" }

\* sinks holds one sink per loadable section of the group, sections
\* ascending, each of this start and of its section's engine.
RegisteredInOrder(group, sinks) ==
    /\ { sinks[k].sec : k \in DOMAIN sinks } = SectionsOf(group) \ FailedSections
    /\ \A k \in DOMAIN sinks :
        /\ sinks[k].group = group
        /\ sinks[k].gen = starts
        /\ sinks[k].engine = cfg.sections[sinks[k].sec][2]
        /\ \A m \in DOMAIN sinks : k < m => sinks[k].sec < sinks[m].sec

StartedWithOneFailure ==
    /\ lastCall.op = "startFactory"
    /\ lastCall.args.keys = "ok"
    /\ Cardinality(FailedSections) = 1

\* C3: a startFactory in which exactly one of the N engine sections fails
\* to load returns with the factory Started and exactly the N-1 other
\* sinks registered, in section order within their group, each attached as
\* an observer; the failed one is neither registered nor attached.
C3_FailedEngineIsSkipped ==
    StartedWithOneFailure =>
        /\ lastCall.result = "returned"
        /\ lifecycle = "Started"
        /\ dbloggers # None /\ output_plugins # None
        /\ RegisteredInOrder("database", dbloggers[1])
        /\ RegisteredInOrder("output", output_plugins[1])
        /\ Len(dbloggers[1]) + Len(output_plugins[1])
             = Cardinality(SectionsOf("database") \cup SectionsOf("output")) - 1
        /\ \A s \in RegisteredSinks :
             Cardinality({ k \in DOMAIN observers : observers[k] = s }) = 1
        /\ \A k \in DOMAIN observers :
             observers[k].gen = starts => observers[k].sec \notin FailedSections

\* The failed engine is followed by one of its own group that loads, and a
\* sink of the other group is registered too.
C3_Witness ==
    /\ StartedWithOneFailure
    /\ \E i \in FailedSections, k \in DOMAIN output_plugins[1] :
         /\ StartsWith(cfg.sections[i], "output")
         /\ output_plugins[1][k].sec > i
    /\ Len(dbloggers[1]) > 0

\* C4: a logDispatch in which no sink raises has called logDispatch once on
\* every database sink, in discovery order, and then once on every output
\* sink, in discovery order.
C4_DispatchOrder ==
    (Dispatched /\ lastCall.result = "returned") =>
        LET db  == dbloggers[1]
            out == output_plugins[1]
            tr  == lastCall.trace
        IN  /\ Len(tr) = Len(db) + Len(out)
            /\ \A k \in DOMAIN tr : tr[k].call = "logDispatch"
            /\ \A k \in DOMAIN db : tr[k].target = db[k]
            /\ \A k \in DOMAIN out : tr[Len(db) + k].target = out[k]
            /\ \A k, m \in DOMAIN db : k < m => db[k].sec < db[m].sec
            /\ \A k, m \in DOMAIN out : k < m => out[k].sec < out[m].sec
            /\ \A s \in RegisteredSinks : Calls("logDispatch", s) = 1

\* Two database sinks and an output sink whose section comes between them.
C4_Witness ==
    /\ Dispatched /\ lastCall.result = "returned"
    /\ Len(dbloggers[1]) = 2 /\ Len(output_plugins[1]) = 1
    /\ output_plugins[1][1].sec < dbloggers[1][2].sec

\* The last call was a buildProtocol that got past line 135.
Built == lastCall.op = "buildProtocol" /\ privateKeys # None

GroupExchange ==
    { "diffie-hellman-group-exchange-sha1",
      "diffie-hellman-group-exchange-sha256" }

KeptEntry(name) == name \notin GroupExchange

\* C5: a buildProtocol at which neither path can be read, on a factory
\* holding no moduli table, returns a handler whose key-exchange list is the
\* default list without the two group-exchange entries, the rest in order;
\* a default list lacking one of the two is no error.
C5_PrunedWithoutModuli ==
    ( /\ Built
      /\ \A i \in DOMAIN modulis : lastCall.args.moduli[i] = "IOError"
      /\ NoPrimes(primes) ) =>
        /\ lastCall.result = "returned"
        /\ lastCall.value # None
        /\ lastCall.value[1].supportedKeyExchanges
             = SelectSeq(supportedKeyExchanges, KeptEntry)

\* The default list lacks the sha256 entry and loses only the sha1 entry.
C5_Witness ==
    /\ Built
    /\ \A i \in DOMAIN modulis : lastCall.args.moduli[i] = "IOError"
    /\ NoPrimes(primes)
    /\ "diffie-hellman-group-exchange-sha256" \notin Range(supportedKeyExchanges)
    /\ lastCall.value # None
    /\ Len(lastCall.value[1].supportedKeyExchanges)
         = Len(supportedKeyExchanges) - 1

\* C6: a buildProtocol at which a parseable moduli file exists at either
\* path returns a handler whose key-exchange list is the default list.
C6_ModuliKeepGroupExchange ==
    ( /\ Built
      /\ \E i \in DOMAIN modulis : lastCall.args.moduli[i] = "table" ) =>
        /\ lastCall.result = "returned"
        /\ lastCall.value # None
        /\ lastCall.value[1].supportedKeyExchanges = supportedKeyExchanges

\* The paths a probe reaches when every failure moves on to the next path
\* and the first success ends it.
Parses(i) == lastCall.args.moduli[i] \in { "empty", "table" }
Reached ==
    { i \in DOMAIN modulis : \A j \in 1..(i - 1) : ~Parses(j) }

\* C7: the probe calls parseModuliFile on the paths in order, up to the
\* first that parses and on none after it, and no read or parse failure
\* makes buildProtocol fail.
C7_ProbeFailuresNonFatal ==
    Built =>
        /\ lastCall.result = "returned"
        /\ Len(lastCall.trace) = Cardinality(Reached)
        /\ \A k \in DOMAIN lastCall.trace : lastCall.trace[k] = modulis[k]

\* C9: every handler buildProtocol returns carries the fixed cipher, MAC
\* and compression lists, in their fixed order.
C9_FixedAlgorithmLists ==
    (lastCall.op = "buildProtocol" /\ lastCall.result = "returned") =>
        /\ lastCall.value # None
        /\ lastCall.value[1].supportedCiphers
             = << "aes128-ctr", "aes192-ctr", "aes256-ctr", "aes128-cbc",
                  "3des-cbc", "blowfish-cbc", "cast128-cbc", "aes192-cbc",
                  "aes256-cbc" >>
        /\ lastCall.value[1].supportedMACs = << "hmac-md5", "hmac-sha1" >>
        /\ lastCall.value[1].supportedCompressions
             = << "zlib@openssh.com", "zlib", "none" >>

\* A handler built with a moduli table, its key-exchange list left alone,
\* on a factory whose configuration sets the version string.
C9_Witness ==
    /\ lastCall.op = "buildProtocol" /\ lastCall.result = "returned"
    /\ ~NoPrimes(primes)
    /\ cfg.version # None
    /\ lastCall.value[1].supportedKeyExchanges = supportedKeyExchanges

\* A step that is a startFactory call failing on its key material.
StartFailsOnKeys == starts' = starts + 1 /\ lastCall'.args.keys # "ok"

\* C8: a startFactory that cannot obtain or parse its key material fails,
\* and the lifecycle state, the session registry, the start timestamp, the
\* key maps, the sink lists and the observers are what they were before.
C8_FailedStartChangesNothing ==
    [][ StartFailsOnKeys =>
          /\ lastCall'.result = "raised"
          /\ UNCHANGED << lifecycle, sessions, starttime, publicKeys,
                          privateKeys, dbloggers, output_plugins, observers >>
      ]_vars

\* C8 as the code has it: such a startFactory fails, with the lifecycle
\* state, privateKeys, the sink lists and the observers what they were
\* before; the session registry is already a new empty one, the start
\* timestamp is overwritten, and publicKeys is replaced exactly when the
\* failure is in parsing a private key.
C8_FailedStartKeepsSinks ==
    [][ StartFailsOnKeys =>
          /\ lastCall'.result = "raised"
          /\ UNCHANGED << lifecycle, privateKeys, dbloggers, output_plugins,
                          observers >>
          /\ sessions' = [ owner |-> "instance", ids |-> {} ]
          /\ starttime' = Some(lastCall'.args.time)
          /\ IF lastCall'.args.keys
                  \in { "fromString(rsaPriv)", "fromString(dsaPriv)" }
             THEN publicKeys' # None
             ELSE publicKeys' = publicKeys
      ]_vars

\* A restart that fails on its keys, on a factory that had a sink, an open
\* session and an earlier start timestamp.
C8_Witness ==
    /\ lastCall.op = "startFactory" /\ lastCall.result = "raised"
    /\ lastCall.args.hadSessions > 0
    /\ RegisteredSinks # {}
    /\ sessions.ids = {}

\* A step that is a startFactory call running to completion.
StartCompletes == starts' = starts + 1 /\ lastCall'.result = "returned"

\* C10: right after a completed startFactory the session registry is
\* empty and bound on the instance, and the start timestamp is the time
\* read in that call.
C10_StartResetsSessions ==
    [][ StartCompletes =>
          /\ sessions'.ids = {}
          /\ sessions'.owner = "instance"
          /\ starttime' = Some(lastCall'.args.time)
      ]_vars

\* A completed restart of a factory that had an open session and an
\* earlier, different start timestamp is reached.
C10_Witness ==
    /\ lastCall.op = "startFactory" /\ lastCall.result = "returned"
    /\ lastCall.args.hadSessions > 0
    /\ starts > 1
    /\ sessions.ids = {}

\* The last call was a buildProtocol that returned a handler.
Returned == lastCall.op = "buildProtocol" /\ lastCall.result = "returned"

\* C11: buildProtocol returns a handler only on a factory on which a
\* startFactory has run to completion (the factory has left Uninitialized
\* and holds a start timestamp, both key maps and both sink lists); on a
\* factory never started, or whose startFactory failed on its keys, it
\* raises and returns nothing.
C11_HandlerOnlyAfterStart ==
    /\ Returned =>
          /\ lastCall.value # None
          /\ lifecycle # "Uninitialized"
          /\ starttime # None /\ publicKeys # None /\ privateKeys # None
          /\ dbloggers # None /\ output_plugins # None
    /\ (lastCall.op = "buildProtocol" /\ lifecycle = "Uninitialized") =>
          /\ lastCall.result = "raised"
          /\ lastCall.value = None

\* buildProtocol on a factory whose only startFactory calls failed while
\* parsing a private key: publicKeys is set, privateKeys is not.
C11_Witness ==
    /\ lastCall.op = "buildProtocol" /\ lastCall.result = "raised"
    /\ lifecycle = "Uninitialized" /\ starts > 0
    /\ publicKeys # None /\ privateKeys = None

\* C12: once stopFactory has run on a factory that had been started, the
\* factory is Stopped for good: no later call, another startFactory
\* included, makes it Started again.
C12_StoppedIsFinal ==
    [][ (lifecycle = "Stopped" /\ output_plugins # None)
            => lifecycle' # "Started" ]_vars

\* A step that is a buildProtocol call (a call repeating the last one
\* exactly changes nothing at all).
BuildStep ==
    /\ lastCall'.op = "buildProtocol"
    /\ lastCall.op = "buildProtocol" => lastCall' # lastCall

\* C13: every field of the factory (key maps, session registry, start
\* timestamp, sink lists, cached moduli table) has the same value after a
\* buildProtocol call as before it.
C13_BuildChangesNoField ==
    [][ BuildStep =>
          UNCHANGED << publicKeys, privateKeys, sessions, starttime,
                       dbloggers, output_plugins, primes >>
      ]_vars

\* The path whose table a buildProtocol call with these probe outcomes
\* stores: the first that is neither unreadable nor unparseable, if no
\* path before it is unparseable.
StoredPath(outcome) ==
    { i \in DOMAIN modulis :
        /\ outcome[i] \in { "empty", "table" }
        /\ \A j \in 1..(i - 1) : outcome[j] = "IOError" }

\* C13 as the code has it: a buildProtocol call changes one field, the
\* cached moduli table, which becomes the table of the first path that
\* parses and stays what it was when no path parses or the call fails
\* before probing; every other field is the same after as before.
C13_BuildChangesOnlyPrimes ==
    [][ BuildStep =>
          /\ UNCHANGED << cfg, publicKeys, privateKeys, sessions, starttime,
                          dbloggers, output_plugins, observers, lifecycle,
                          starts >>
          /\ LET stored == IF privateKeys = None THEN {}
                           ELSE StoredPath(lastCall'.args.moduli)
             IN  IF stored = {}
                 THEN primes' = primes
                 ELSE \E i \in stored :
                        /\ primes' # None
                        /\ primes'[1] =
                             IF lastCall'.args.moduli[i] = "empty" THEN {}
                             ELSE { << "moduli", modulis[i] >> }
      ]_vars

\* A buildProtocol that found the first path unreadable and stored the
\* table of the second.
C13_Witness ==
    /\ Returned
    /\ lastCall.args.moduli[1] = "IOError"
    /\ lastCall.args.moduli[2] = "table"
    /\ primes = Some({ << "moduli", modulis[2] >> })

\* C14: on a factory whose startFactory has completed, a step that is not
\* another startFactory call (a buildProtocol, logDispatch or stopFactory
\* call, or a session opening or closing) leaves publicKeys, privateKeys,
\* dbloggers and output_plugins exactly as they were.
C14_KeysAndSinksFrozen ==
    [][ (output_plugins # None /\ starts' = starts) =>
          UNCHANGED << publicKeys, privateKeys, dbloggers, output_plugins >>
      ]_vars

\* After stopFactory has stopped a sink, the sink is still in the list.
C14_Witness ==
    /\ lastCall.op = "stopFactory" /\ lastCall.result = "returned"
    /\ Len(lastCall.trace) > 1
    /\ output_plugins # None /\ Len(output_plugins[1]) > 0
    /\ publicKeys # None /\ privateKeys # None

\* C15: the public-key algorithm list of every handler buildProtocol
\* returns names exactly the algorithms that are keys of the factory's
\* loaded key maps, each once, and these are 'ssh-rsa' and 'ssh-dss'.
C15_PublicKeyNamesAreLoaded ==
    Returned =>
        /\ lastCall.value # None
        /\ privateKeys # None /\ publicKeys # None
        /\ LET names == lastCall.value[1].supportedPublicKeys
           IN  /\ Range(names) = DOMAIN privateKeys[1]
               /\ Range(names) = DOMAIN publicKeys[1]
               /\ Range(names) = { "ssh-rsa", "ssh-dss" }
               /\ Len(names) = Cardinality(DOMAIN privateKeys[1])

\* A handler built on a factory holding both private keys.
C15_Witness ==
    /\ Returned
    /\ privateKeys # None
    /\ DOMAIN privateKeys[1] = { "ssh-rsa", "ssh-dss" }
    /\ lastCall.value[1].supportedPublicKeys = << "ssh-rsa", "ssh-dss" >>

\* The banner used when the configuration has none (line 133).
FallbackBanner == "SSH-2.0-OpenSSH_6.0p1 Debian-4+deb7u2"

\* The probe of the last call met a file that does not parse.
ProbeFailed ==
    \E i \in DOMAIN modulis :
        /\ lastCall.args.moduli[i] = "ValueError"
        /\ \A j \in 1..(i - 1) : lastCall.args.moduli[j] = "IOError"

\* C16: the banner of a handler buildProtocol returns is the value of
\* honeypot.ssh_version_string when the configuration has it, and the
\* literal of line 133 when the option or its section is missing; whether
\* buildProtocol returns does not depend on the lookup: with the keys
\* loaded it fails only when the moduli probe does.
C16_BannerFromConfigOrFallback ==
    /\ Returned =>
          /\ lastCall.value # None
          /\ LET banner == lastCall.value[1].ourVersionString
             IN  /\ (<< "honeypot" >> \in Range(cfg.sections)
                        /\ cfg.version # None) => banner = cfg.version[1]
                 /\ << "honeypot" >> \notin Range(cfg.sections)
                        => banner = FallbackBanner
                 /\ cfg.version = None => banner = FallbackBanner
    /\ (Built /\ ~ProbeFailed) => lastCall.result = "returned"

\* A handler built from a configuration that has the honeypot section but
\* not the option.
C16_Witness ==
    /\ Returned
    /\ << "honeypot" >> \in Range(cfg.sections)
    /\ cfg.version = None
    /\ lastCall.value[1].ourVersionString = FallbackBanner

\* The positions in the last call's trace at which the base class's
\* stopFactory ran.
BaseStopped ==
    { m \in DOMAIN lastCall.trace :
        lastCall.trace[m].call = "SSHFactory.stopFactory" }

\* C17: when stopFactory runs the base factory's stopFactory, stop() has
\* already been invoked on every output sink.
C17_SinksStoppedBeforeRelease ==
    Stopped =>
        \A m \in BaseStopped :
            \A s \in OptItems(output_plugins) :
                \E k \in 1..(m - 1) :
                    /\ lastCall.trace[k].call = "stop"
                    /\ lastCall.trace[k].target = s

\* C17 as the code has it: stopFactory runs the base factory's stopFactory
\* first, once, and invokes stop() on the output sinks, in registration
\* order, only after it.
C17_ReleaseBeforeSinks ==
    lastCall.op = "stopFactory" =>
        /\ BaseStopped = { 1 }
        /\ Stopped =>
              /\ Len(lastCall.trace) <= 1 + Len(output_plugins[1])
              /\ \A k \in 2..Len(lastCall.trace) :
                    /\ lastCall.trace[k].call = "stop"
                    /\ lastCall.trace[k].target = output_plugins[1][k - 1]

\* A stopFactory that stopped two output sinks, neither raising.
C17_Witness ==
    /\ Stopped /\ lastCall.result = "returned"
    /\ Len(output_plugins[1]) = 2
    /\ Len(lastCall.trace) = 3

\* The last call was a buildProtocol at which neither path could be read.
BuiltUnreadable ==
    /\ Built
    /\ \A i \in DOMAIN modulis : lastCall.args.moduli[i] = "IOError"

\* C18: a non-empty moduli table parsed by one buildProtocol call stays
\* cached on the factory through every later call, so that every later
\* buildProtocol at which neither path can be read still finds it and
\* returns a handler with both group-exchange entries.
C18_TableStaysCached ==
    [][ ~NoPrimes(primes) => ~NoPrimes(primes') ]_vars

\* C18 as the code has it: the cached table outlives the call that parsed
\* it and is replaced only by a buildProtocol at which a path parses; a
\* buildProtocol at which neither path can be read, on a factory whose
\* cached table is then non-empty, returns a handler with the whole default
\* key-exchange list.
C18_CachedTableServesLaterBuilds ==
    /\ [](BuiltUnreadable /\ ~NoPrimes(primes) =>
             /\ lastCall.result = "returned"
             /\ lastCall.value # None
             /\ lastCall.value[1].supportedKeyExchanges
                  = supportedKeyExchanges)
    /\ [][ primes' # primes =>
             /\ BuildStep
             /\ StoredPath(lastCall'.args.moduli) # {} ]_vars

\* A buildProtocol at which neither path could be read, served from the
\* table an earlier call cached.
C18_Witness ==
    /\ BuiltUnreadable /\ lastCall.result = "returned"
    /\ ~NoPrimes(primes)
    /\ GroupExchange \cap Range(lastCall.value[1].supportedKeyExchanges) # {}

\* C19: no buildProtocol call changes the default key-exchange list the
\* handlers share, and a handler built while a moduli table is held
\* offers that whole list, whatever was pruned for earlier handlers.
C19_PruningWorksOnCopy ==
    /\ [][ supportedKeyExchanges' = supportedKeyExchanges ]_vars
    /\ [](Returned /\ ~NoPrimes(primes) =>
             /\ lastCall.value # None
             /\ lastCall.value[1].supportedKeyExchanges
                  = supportedKeyExchanges
             /\ supportedKeyExchanges \in DefaultKexLists)

\* A handler built without moduli lost its group-exchange entries and the
\* shared default list still has them.
C19_Witness ==
    /\ Returned /\ NoPrimes(primes)
    /\ lastCall.value[1].supportedKeyExchanges # supportedKeyExchanges
    /\ GroupExchange \cap Range(lastCall.value[1].supportedKeyExchanges) = {}
    /\ GroupExchange \subseteq Range(supportedKeyExchanges)

\* C20: no call invokes stop() on a database sink: every stop() is on an
\* output sink, and once the factory is Stopped its database sinks are
\* still registered, still attached as observers and unstopped.
C20_DatabaseSinksNeverStopped ==
    /\ \A k \in DOMAIN lastCall.trace :
          lastCall.trace[k].call = "stop" =>
              /\ lastCall.trace[k].target.group = "output"
              /\ lastCall.trace[k].target \notin OptItems(dbloggers)
    /\ lifecycle = "Stopped" =>
          \A s \in OptItems(dbloggers) :
              /\ s \in Range(observers)
              /\ Calls("stop", s) = 0

\* A stopFactory that stopped an output sink on a factory that also has a
\* database sink.
C20_Witness ==
    /\ Stopped /\ lastCall.result = "returned"
    /\ lifecycle = "Stopped"
    /\ OptItems(dbloggers) # {}
    /\ \E s \in OptItems(output_plugins) : Calls("stop", s) = 1

====
